---------------------------- MODULE Spec2Model ----------------------------
(***************************************************************************)
(* Element-abundance core of the VCS equilibrium solver:                   *)
(*   vcs_elab, vcs_elabcheck, vcs_elcorr          (vcs_elem.cpp)           *)
(*   vcs_elem_rearrange, vcs_switch_elem_pos      (vcs_elem_rearrange.cpp) *)
(*                                                                         *)
(* Arrays are 0-based functions, as in the C++ source.                     *)
(***************************************************************************)
EXTENDS Integers, Sequences, FiniteSets, TLC

(***************************************************************************)
(* Exact arithmetic.  A double is modelled as an exact real of the form    *)
(*     SUM_e  c[e] * 10^(-10*e)                                            *)
(* a function from a finite set of integer exponents e to non-zero         *)
(* rationals c[e] = <<numerator, denominator>> in lowest terms.  The       *)
(* constants of the source (1e-6, 1e-10, 1e-12, -1e10, ...) are of this    *)
(* form.  TLC stops with an overflow error when a numerator or denominator *)
(* leaves 32 bits, and Undefined stops it when an order comparison cannot  *)
(* be decided exactly, so every value computed is the exact real result.   *)
(***************************************************************************)
Undefined == CHOOSE u \in {} : TRUE

Abs(n) == IF n < 0 THEN -n ELSE n

RECURSIVE GCD(_, _)
GCD(a, b) == IF b = 0 THEN a ELSE GCD(b, a % b)

RNorm(n, d) == LET g == GCD(Abs(n), d) IN <<n \div g, d \div g>>

RZero == <<0, 1>>

RAdd(x, y) ==
  IF x[1] = 0 THEN y
  ELSE IF y[1] = 0 THEN x
  ELSE LET g == GCD(x[2], y[2])
       IN  RNorm(x[1] * (y[2] \div g) + y[1] * (x[2] \div g), x[2] * (y[2] \div g))

RNeg(x) == <<-x[1], x[2]>>

RMul(x, y) ==
  IF x[1] = 0 \/ y[1] = 0 THEN RZero
  ELSE LET g1 == GCD(Abs(x[1]), y[2])
           g2 == GCD(Abs(y[1]), x[2])
       IN  <<(x[1] \div g1) * (y[1] \div g2), (x[2] \div g2) * (y[2] \div g1)>>

RInv(x) == IF x[1] > 0 THEN <<x[2], x[1]>>
           ELSE IF x[1] < 0 THEN <<-x[2], -x[1]>>
           ELSE Undefined

MaxInt32 == (2^30 - 1) + 2^30

Coef(x, e) == IF e \in DOMAIN x THEN x[e] ELSE RZero

\* s without its zero coefficients.
Strip(s) == [e \in {f \in DOMAIN s : s[f][1] # 0} |-> s[e]]

NZero == Strip([e \in {} |-> RZero])

\* n/d * 10^(-10*k), for d > 0.
QE(n, d, k) == Strip([e \in {k} |-> RNorm(n, d)])

\* The rational n/d (d > 0).
Q(n, d) == QE(n, d, 0)

I(n) == Q(n, 1)

NAdd(x, y) == Strip([e \in DOMAIN x \cup DOMAIN y |-> RAdd(Coef(x, e), Coef(y, e))])

NNeg(x) == [e \in DOMAIN x |-> RNeg(x[e])]

NSub(x, y) == NAdd(x, NNeg(y))

\* The sum of the rationals p[2], p \in S (S a set of <<key, rational>>).
RECURSIVE RSum(_)
RSum(S) == IF S = {} THEN RZero
           ELSE LET p == CHOOSE q \in S : TRUE
                IN  RAdd(p[2], RSum(S \ {p}))

NMul(x, y) ==
  Strip([e \in {a + b : a \in DOMAIN x, b \in DOMAIN y} |->
           RSum({<<a, RMul(x[a], y[e - a])>> :
                   a \in {b \in DOMAIN x : (e - b) \in DOMAIN y}})])

\* A number with no power of 1e-10 in it: a rational.
IsPlain(x) == DOMAIN x \subseteq {0}

\* x / y for a rational y # 0 (every divisor of the source is one, see the
\* uses); anything else stops TLC.
NDiv(x, y) ==
  IF IsPlain(y) /\ y # NZero
  THEN LET r == RInv(y[0]) IN [e \in DOMAIN x |-> RMul(x[e], r)]
  ELSE Undefined

MinExp(x) == CHOOSE e \in DOMAIN x : \A f \in DOMAIN x : e <= f

\* The sign of x: that of its leading coefficient c[e0].  The terms after it
\* are each at least a factor 1e-10 smaller in weight; with
\* |c[f]| / |c[e0]| <= 2^31 they sum to less than |c[e0]| * 0.22.
\* |c[f]| <= Ceil(c[f]) and 1 / |c[e0]| <= Ceil(1 / c[e0]).
Ceil(r) == (Abs(r[1]) \div r[2]) + 1

NSign(x) ==
  IF DOMAIN x = {} THEN 0
  ELSE LET e0 == MinExp(x)
           ld == x[e0]
       IN  IF \A f \in DOMAIN x \ {e0} : Ceil(x[f]) <= MaxInt32 \div Ceil(RInv(ld))
           THEN (IF ld[1] > 0 THEN 1 ELSE -1)
           ELSE Undefined

NLt(x, y) == NSign(NSub(x, y)) < 0
NGt(x, y) == NSign(NSub(x, y)) > 0
NLe(x, y) == NSign(NSub(x, y)) <= 0
NGe(x, y) == NSign(NSub(x, y)) >= 0

fabs(x) == IF NSign(x) < 0 THEN NNeg(x) ELSE x
MAX(x, y) == IF NGt(x, y) THEN x ELSE y
SQUARE(x) == NMul(x, x)

\* SUM_{i < n} f[i], accumulated in index order.
RECURSIVE SumTo(_, _)
SumTo(f, n) == IF n = 0 THEN NZero ELSE NAdd(SumTo(f, n - 1), f[n - 1])

(***************************************************************************)
(* The state of a VCS_SOLVE object and of the routine that is running.     *)
(***************************************************************************)
VARIABLES
  m_numElemConstraints,  \* ne: number of element constraints
  m_numComponents,       \* nc: number of components
  m_numSpeciesTot,       \* total number of species
  m_numSpeciesRdc,       \* number of species in the active (reduced) list
  FormulaMatrix,         \* FormulaMatrix[i][k]: element i in species k
  gai,                   \* required element abundances
  ga,                    \* current element abundances
  IndEl,                 \* element index into the original problem
  m_elType,              \* element constraint type
  ElActive,              \* element is active
  ElName,                \* element name
  ElGlobalIndex,         \* ElGlobalIndex[iph][e]: VPhaseList[iph]->ElGlobalIndex[e]
  soln,                  \* species mole numbers
  SpeciesUnknownType,    \* VCS_SPECIES_TYPE_*
  SSPhase,               \* species is in a single-species phase
  spStatus,              \* VCS_SPECIES_*
  PhaseID,               \* phase of each species
  TPhMoles,              \* total moles of each phase
  pc,                    \* where the running routine is
  lv,                    \* the running routine's locals and work arrays
  retn,                  \* the value the routine returned
  hist                   \* history: the arguments and the state at the call

dims    == <<m_numElemConstraints, m_numComponents, m_numSpeciesTot>>
elems   == <<FormulaMatrix, gai, ga, IndEl, m_elType, ElActive, ElName>>
species == <<soln, SpeciesUnknownType, SSPhase, spStatus, PhaseID, m_numSpeciesRdc>>
vars    == <<dims, elems, ElGlobalIndex, species, TPhMoles, pc, lv, retn, hist>>

Elems == 0 .. (m_numElemConstraints - 1)
Comps == 0 .. (m_numComponents - 1)
Specs == 0 .. (m_numSpeciesTot - 1)

\* The element-indexed state, as the claims compare it before and after.
ElemState == [FormulaMatrix |-> FormulaMatrix, gai |-> gai, ga |-> ga,
              IndEl |-> IndEl, m_elType |-> m_elType, ElActive |-> ElActive,
              ElName |-> ElName, ElGlobalIndex |-> ElGlobalIndex, soln |-> soln]

VCS_SUCCESS == 0
VCS_FAILED_CONVERGENCE == -1

VCS_ELEM_TYPE_ABSPOS == "VCS_ELEM_TYPE_ABSPOS"
VCS_ELEM_TYPE_ELECTRONCHARGE == "VCS_ELEM_TYPE_ELECTRONCHARGE"
VCS_ELEM_TYPE_CHARGENEUTRALITY == "VCS_ELEM_TYPE_CHARGENEUTRALITY"
VCS_ELEM_TYPE_OTHERCONSTRAINT == "VCS_ELEM_TYPE_OTHERCONSTRAINT"
ElemTypes == {VCS_ELEM_TYPE_ABSPOS, VCS_ELEM_TYPE_ELECTRONCHARGE,
              VCS_ELEM_TYPE_CHARGENEUTRALITY, VCS_ELEM_TYPE_OTHERCONSTRAINT}

VCS_SPECIES_TYPE_MOLNUM == "VCS_SPECIES_TYPE_MOLNUM"
VCS_SPECIES_TYPE_INTERFACIALVOLTAGE == "VCS_SPECIES_TYPE_INTERFACIALVOLTAGE"

VCS_SPECIES_MAJOR == "VCS_SPECIES_MAJOR"
VCS_SPECIES_ZEROEDSS == "VCS_SPECIES_ZEROEDSS"
VCS_SPECIES_ZEROEDMS == "VCS_SPECIES_ZEROEDMS"

(***************************************************************************)
(* vcs_switch_elem_pos                                                     *)
(***************************************************************************)
\* vcsUtil_dsw, vcsUtil_isw, vcsUtil_stsw: exchange entries i and j of x.
vcsUtil_sw(x, i, j) ==
  [e \in DOMAIN x |-> IF e = i THEN x[j] ELSE IF e = j THEN x[i] ELSE x[e]]

\* One entry of a phase's ElGlobalIndex after the two if statements.
SwitchGlobalIndex(g, ipos, jpos) ==
  LET g1 == IF g = ipos THEN jpos ELSE g
  IN  IF g1 = jpos THEN ipos ELSE g1

SwitchPhaseMaps(maps, ipos, jpos) ==
  [iph \in DOMAIN maps |->
     [e \in DOMAIN maps[iph] |-> SwitchGlobalIndex(maps[iph][e], ipos, jpos)]]

\* The loop of lines 244-246 running over the components only.
SwitchRowsOfComponents(fm, ipos, jpos) ==
  [i \in DOMAIN fm |->
     [j \in DOMAIN fm[i] |->
        IF j >= m_numComponents THEN fm[i][j]
        ELSE IF i = ipos THEN fm[jpos][j] ELSE IF i = jpos THEN fm[ipos][j] ELSE fm[i][j]]]

\* SWAP(FormulaMatrix[ipos][j], FormulaMatrix[jpos][j]) for every species j.
SwitchRows(fm, ipos, jpos) ==
  [i \in DOMAIN fm |->
     [j \in DOMAIN fm[i] |->
        IF i = ipos THEN fm[jpos][j] ELSE IF i = jpos THEN fm[ipos][j] ELSE fm[i][j]]]

\* The effect of vcs_switch_elem_pos(ipos, jpos) on the VCS_SOLVE object.
vcs_switch_elem_pos(ipos, jpos) ==
  IF ipos = jpos
  THEN UNCHANGED <<elems, ElGlobalIndex>>
  ELSE /\ ElGlobalIndex' = SwitchPhaseMaps(ElGlobalIndex, ipos, jpos)
       /\ gai' = vcsUtil_sw(gai, ipos, jpos)
       /\ ga' = vcsUtil_sw(ga, ipos, jpos)
       /\ IndEl' = vcsUtil_sw(IndEl, ipos, jpos)
       /\ m_elType' = vcsUtil_sw(m_elType, ipos, jpos)
       /\ ElActive' = vcsUtil_sw(ElActive, ipos, jpos)
       /\ FormulaMatrix' = SwitchRows(FormulaMatrix, ipos, jpos)
       /\ ElName' = vcsUtil_sw(ElName, ipos, jpos)

\* A caller switches two element positions.
CallSwitchElemPos ==
  /\ pc = "idle"
  /\ \E ipos \in Elems, jpos \in Elems :
       /\ vcs_switch_elem_pos(ipos, jpos)
       /\ hist' = [op |-> "switch", ipos |-> ipos, jpos |-> jpos, pre |-> ElemState]
  /\ UNCHANGED <<dims, species, TPhMoles, pc, lv, retn>>


(***************************************************************************)
(* vcs_elem_rearrange                                                      *)
(***************************************************************************)
\* The value of test when the do-while loop that fills aw[] ends: each pass
\* subtracts 1.0 once per element and compares test with aw[i] = gai[i] right
\* after the i-th subtraction; a pass that saw an equality is repeated.
RECURSIVE UniqueTest(_)
UniqueTest(test) ==
  LET lindep == \E i \in Elems : NSub(test, I(i + 1)) = gai[i]
      after  == NSub(test, I(m_numElemConstraints))
  IN  IF lindep THEN UniqueTest(after) ELSE after

\* test = -1.0E10
TestInit == QE(-1, 1, -1)

\* 1.0e-6, the squared length below which a row is rejected.
LinDepTol == Q(1, 1000000)

\* A rejection test against 1.0 instead of 1.0e-6.
IsLinDepCoarse(len) == NLt(len, I(1))

\* IF NORM OF NEW ROW .LT. 1E-6 REJECT
IsLinDep(len) == NLt(len, LinDepTol)

\* The row of constraint k restricted to the component columns.
CompRow(fm, k) == [j \in Comps |-> fm[k][j]]

DotC(u, v) == SumTo([i \in Comps |-> NMul(u[i], v[i])], m_numComponents)

\* The row left as filled in, the orthogonalization skipped.
OrthogonalizeSkipped(row, sm, sa, jl) == row

\* The row made orthogonal to rows 0 .. jl-1 of sm: first every ss[j] from
\* the row as filled in, then the subtractions.
Orthogonalize(row, sm, sa, jl) ==
  LET ss == [j \in 0 .. (jl - 1) |-> NDiv(DotC(row, sm[j]), sa[j])]
  IN  [l \in Comps |-> NSub(row[l], SumTo([j \in 0 .. (jl - 1) |-> NMul(ss[j], sm[j][l])], jl))]

\* The active, not yet selected constraints at or after position jr.
Candidates == {ielem \in Elems : /\ ielem >= lv.jr
                                 /\ ElActive[ielem]
                                 /\ lv.aw[ielem] # lv.test}

\* The search loop without its break: the last candidate.
NextCandidateNoBreak == CHOOSE c \in Candidates : \A d \in Candidates : c >= d

\* The search loop: the first candidate (k = ielem; break).
NextCandidate == CHOOSE c \in Candidates : \A d \in Candidates : c <= d

\* Entry: the work arrays are filled and jr becomes 0.
rearrange_begin ==
  /\ pc = "idle"
  /\ lv' = [aw |-> gai, test |-> UniqueTest(TestInit), jr |-> 0, k |-> 0,
            sa |-> [j \in Elems |-> NZero],
            sm |-> [j \in Comps |-> [i \in Comps |-> NZero]]]
  /\ hist' = [op |-> "rearrange", pre |-> ElemState, examined |-> <<>>, swaps |-> 0]
  /\ pc' = "rearr_search"
  /\ UNCHANGED <<dims, elems, ElGlobalIndex, species, TPhMoles, retn>>

\* One pass of the inner do-while: the next candidate k is taken out of
\* consideration, orthogonalized and measured.
rearrange_candidate ==
  /\ pc = "rearr_search"
  /\ Candidates # {}
  /\ LET k   == NextCandidate
         jr  == lv.jr
         row == Orthogonalize(CompRow(FormulaMatrix, k), lv.sm, lv.sa, jr)
         len == SumTo([ml \in Comps |-> SQUARE(row[ml])], m_numComponents)
         lindep == IsLinDep(len)
     IN  /\ lv' = [lv EXCEPT !.k = k, !.aw[k] = lv.test, !.sm[jr] = row, !.sa[jr] = len]
         /\ hist' = [hist EXCEPT !.examined = Append(@, ElName[k])]
         /\ pc' = IF lindep THEN "rearr_search" ELSE "rearr_swap"
  /\ UNCHANGED <<dims, elems, ElGlobalIndex, species, TPhMoles, retn>>

\* No candidate is left: "Shouldn't be here", exit(-1).
rearrange_exhausted ==
  /\ pc = "rearr_search"
  /\ Candidates = {}
  /\ pc' = "exit"
  /\ UNCHANGED <<dims, elems, ElGlobalIndex, species, TPhMoles, lv, retn, hist>>

\* REARRANGE THE DATA, then the test of the outer do-while.
rearrange_accept ==
  /\ pc = "rearr_swap"
  /\ LET jr == lv.jr
         k  == lv.k
     IN  /\ vcs_switch_elem_pos(jr, k)
         /\ hist' = [hist EXCEPT !.swaps = IF jr # k THEN @ + 1 ELSE @]
         /\ IF jr < m_numComponents - 1
            THEN /\ lv' = [lv EXCEPT !.aw = IF jr # k THEN vcsUtil_sw(lv.aw, jr, k) ELSE @,
                                     !.jr = jr + 1]
                 /\ pc' = "rearr_search"
                 /\ retn' = retn
            ELSE /\ lv' = [lv EXCEPT !.aw = IF jr # k THEN vcsUtil_sw(lv.aw, jr, k) ELSE @]
                 /\ pc' = "done"
                 /\ retn' = VCS_SUCCESS
  /\ UNCHANGED <<dims, species, TPhMoles>>


(***************************************************************************)
(* vcs_elab, vcs_elabcheck                                                 *)
(***************************************************************************)
NonVoltage(k) == SpeciesUnknownType[k] # VCS_SPECIES_TYPE_INTERFACIALVOLTAGE

\* vcs_elab without the test of line 31: every species is summed.
vcs_elabAllSpecies(fm, sl) ==
  [j \in Elems |->
     SumTo([i \in Specs |-> NMul(fm[j][i], sl[i])], m_numSpeciesTot)]

\* vcs_elab: the element abundances of the mole numbers sl.
vcs_elab(fm, sl) ==
  [j \in Elems |->
     SumTo([i \in Specs |-> IF NonVoltage(i) THEN NMul(fm[j][i], sl[i]) ELSE NZero],
           m_numSpeciesTot)]

\* A caller runs vcs_elab(): ga is stored back, nothing else is written.
CallElab ==
  /\ pc = "idle"
  /\ ga' = vcs_elab(FormulaMatrix, soln)
  /\ hist' = [op |-> "elab", pre |-> ElemState,
              rest |-> <<dims, species, TPhMoles, lv, retn>>]
  /\ UNCHANGED <<dims, FormulaMatrix, gai, IndEl, m_elType, ElActive, ElName,
                 ElGlobalIndex, species, TPhMoles, pc, lv, retn>>

\* VCS_DELETE_MINORSPECIES_CUTOFF = 1.0e-140
VCS_DELETE_MINORSPECIES_CUTOFF == QE(1, 1, 14)

\* MAX(scale, fabs(eval * soln[kspec])) over the species kspec < n with eval # 0.
RECURSIVE ElabScale(_, _, _, _)
ElabScale(fm, sl, i, n) ==
  IF n = 0 THEN VCS_DELETE_MINORSPECIES_CUTOFF
  ELSE LET scale == ElabScale(fm, sl, i, n - 1)
           eval  == fm[i][n - 1]
       IN  IF eval # NZero THEN MAX(scale, fabs(NMul(eval, sl[n - 1]))) ELSE scale

\* Constraint i is in compliance: the body of the loop of vcs_elabcheck does
\* not return FALSE for it.
ElabRowGood(fm, gaX, sl, i) ==
  LET err == fabs(NSub(gaX[i], gai[i]))
  IN  IF NGt(err, NMul(fabs(gai[i]), QE(1, 100, 1)))
      THEN IF gai[i] = NZero \/ m_elType[i] = VCS_ELEM_TYPE_ELECTRONCHARGE
           THEN LET multisign == \E kspec \in Specs : NSign(fm[i][kspec]) < 0
                    scale == ElabScale(fm, sl, i, m_numSpeciesTot)
                IN  IF multisign
                    THEN ~NGt(err, NMul(QE(1, 10, 1), scale))
                    ELSE ~NGt(err, VCS_DELETE_MINORSPECIES_CUTOFF)
           ELSE FALSE
      ELSE TRUE

\* vcs_elabcheck(ibound): TRUE when every constraint below top is in
\* compliance.  (A charge-neutrality constraint has gai = 0 in every problem
\* here, so AssertThrowVCS does not throw.)
vcs_elabcheck(ibound, fm, gaX, sl) ==
  LET top == IF ibound # 0 THEN m_numElemConstraints ELSE m_numComponents
  IN  \A i \in 0 .. (top - 1) : ElabRowGood(fm, gaX, sl, i)

\* A call of vcs_elabcheck(ibound); the result is kept in retn, TRUE as 1 and
\* FALSE as 0.
CallElabCheck ==
  /\ pc = "idle"
  /\ \E ibound \in {0, 1} :
       /\ retn' = IF vcs_elabcheck(ibound, FormulaMatrix, ga, soln) THEN 1 ELSE 0
       /\ hist' = [op |-> "elabcheck", ibound |-> ibound]
  /\ UNCHANGED <<dims, elems, ElGlobalIndex, species, TPhMoles, pc, lv>>

\* vcs_tmoles: the total moles of each phase.
vcs_tmoles(sl) ==
  [iph \in {PhaseID[k] : k \in Specs} |->
     SumTo([k \in Specs |-> IF PhaseID[k] = iph /\ NonVoltage(k) THEN sl[k] ELSE NZero],
           m_numSpeciesTot)]

(***************************************************************************)
(* vcs_elcorr                                                              *)
(***************************************************************************)
\* Stage 1 with the test of line 259 off by one: a row with one entry is
\* treated like a row with several.
DegenerateRowOffByOne(i, sl) ==
  LET multisign  == \E kspec \in Specs : NonVoltage(kspec) /\ NSign(FormulaMatrix[i][kspec]) < 0
      numNonZero == Cardinality({kspec \in Specs :
                                   NonVoltage(kspec) /\ FormulaMatrix[i][kspec] # NZero})
      pos  == {kspec \in Specs : NonVoltage(kspec) /\ NSign(FormulaMatrix[i][kspec]) > 0}
      cpos == {kspec \in Comps : NonVoltage(kspec) /\ NSign(FormulaMatrix[i][kspec]) > 0}
  IN  IF multisign THEN [soln |-> sl, changed |-> FALSE]
      ELSE IF numNonZero < 1
      THEN [soln |-> [kspec \in Specs |->
                        IF kspec \in pos THEN NDiv(gai[i], FormulaMatrix[i][kspec])
                        ELSE sl[kspec]],
            changed |-> pos # {}]
      ELSE IF Cardinality(cpos) = 1 /\ m_numSpeciesTot > m_numComponents
      THEN LET compID == CHOOSE kspec \in cpos : TRUE
               diff == NSub(gai[i],
                            SumTo([kspec \in Specs |->
                                     IF kspec >= m_numComponents /\ NonVoltage(kspec)
                                     THEN NMul(FormulaMatrix[i][kspec], sl[kspec])
                                     ELSE NZero], m_numSpeciesTot))
           IN  [soln |-> [sl EXCEPT ![compID] =
                            MAX(NZero, NDiv(diff, FormulaMatrix[i][compID]))],
                changed |-> TRUE]
      ELSE [soln |-> sl, changed |-> FALSE]

\* Stage 1, one constraint i: a single-sign row with one non-zero entry sets
\* that species; one with a single positive component entry sets that
\* component from the non-component species.
DegenerateRow(i, sl) ==
  LET multisign  == \E kspec \in Specs : NonVoltage(kspec) /\ NSign(FormulaMatrix[i][kspec]) < 0
      numNonZero == Cardinality({kspec \in Specs :
                                   NonVoltage(kspec) /\ FormulaMatrix[i][kspec] # NZero})
      pos  == {kspec \in Specs : NonVoltage(kspec) /\ NSign(FormulaMatrix[i][kspec]) > 0}
      cpos == {kspec \in Comps : NonVoltage(kspec) /\ NSign(FormulaMatrix[i][kspec]) > 0}
  IN  IF multisign THEN [soln |-> sl, changed |-> FALSE]
      ELSE IF numNonZero < 2
      THEN [soln |-> [kspec \in Specs |->
                        IF kspec \in pos THEN NDiv(gai[i], FormulaMatrix[i][kspec])
                        ELSE sl[kspec]],
            changed |-> pos # {}]
      ELSE IF Cardinality(cpos) = 1 /\ m_numSpeciesTot > m_numComponents
      THEN LET compID == CHOOSE kspec \in cpos : TRUE
               diff == NSub(gai[i],
                            SumTo([kspec \in Specs |->
                                     IF kspec >= m_numComponents /\ NonVoltage(kspec)
                                     THEN NMul(FormulaMatrix[i][kspec], sl[kspec])
                                     ELSE NZero], m_numSpeciesTot))
           IN  [soln |-> [sl EXCEPT ![compID] =
                            MAX(NZero, NDiv(diff, FormulaMatrix[i][compID]))],
                changed |-> TRUE]
      ELSE [soln |-> sl, changed |-> FALSE]

\* Stage 1 over the constraints i < n, in order.
RECURSIVE DegenerateRows(_, _)
DegenerateRows(n, sl) ==
  IF n = 0 THEN [soln |-> sl, changed |-> FALSE]
  ELSE LET prev == DegenerateRows(n - 1, sl)
           this == DegenerateRow(n - 1, prev.soln)
       IN  [soln |-> this.soln, changed |-> prev.changed \/ this.changed]

\* Stage 2, constraint i and species kspec: the maximum bound of an
\* absolute-positive constraint.
MaxBound(i, kspec, st) ==
  LET atomComp == FormulaMatrix[i][kspec]
      maxPermissible == NDiv(gai[i], atomComp)
  IN  IF /\ m_elType[i] = VCS_ELEM_TYPE_ABSPOS
         /\ NonVoltage(kspec)
         /\ NSign(atomComp) > 0
         /\ NGt(st.soln[kspec], maxPermissible)
      THEN IF NLt(maxPermissible, VCS_DELETE_MINORSPECIES_CUTOFF)
           THEN [soln |-> [st.soln EXCEPT ![kspec] = NZero],
                 spStatus |-> [st.spStatus EXCEPT ![kspec] =
                                 IF SSPhase[kspec] THEN VCS_SPECIES_ZEROEDSS
                                 ELSE VCS_SPECIES_ZEROEDMS],
                 changed |-> TRUE]
           ELSE [soln |-> [st.soln EXCEPT ![kspec] = maxPermissible],
                 spStatus |-> st.spStatus, changed |-> TRUE]
      ELSE st

\* Stage 2 over the first n (constraint, species) pairs, constraints outermost.
RECURSIVE MaxBounds(_, _)
MaxBounds(n, st) ==
  IF n = 0 THEN st
  ELSE MaxBound((n - 1) \div m_numSpeciesTot, (n - 1) % m_numSpeciesTot,
                MaxBounds(n - 1, st))

\* The matrix a with column c replaced by the vector b.
WithColumn(a, c, b) == [r \in DOMAIN a |-> [d \in DOMAIN a[r] |-> IF d = c THEN b[r] ELSE a[r][d]]]

\* The determinant of the leading n x n block of a, by its last row.
RECURSIVE Det(_, _)
Det(a, n) ==
  IF n = 0 THEN I(1)
  ELSE SumTo([c \in 0 .. (n - 1) |->
                LET minor == [r \in 0 .. (n - 2) |->
                                [d \in 0 .. (n - 2) |-> a[r][IF d < c THEN d ELSE d + 1]]]
                    term  == NMul(a[n - 1][c], Det(minor, n - 1))
                IN  IF (n - 1 + c) % 2 = 0 THEN term ELSE NNeg(term)], n)

\* vcsUtil_mlequ(c, idem, n, b, 1): solves c X + b = 0; the status is 1 when c
\* is singular, and X is returned in b.
vcsUtil_mlequ(c, n, b) ==
  LET d == Det(c, n)
  IN  IF d = NZero THEN [status |-> 1, x |-> b]
      ELSE [status |-> 0,
            x |-> [i \in 0 .. (n - 1) |-> NNeg(NDiv(Det(WithColumn(c, i, b), n), d))]]

\* Stage 3, the step: the new mole numbers of the components for the
\* solution x of the linear system, with the status and the components that
\* were forced from a positive mole number to zero.
Clipped(i) == IF SSPhase[i] THEN NZero ELSE NMul(soln[i], Q(1, 10000))

RECURSIVE StepLength(_, _)
StepLength(x, n) ==
  IF n = 0 THEN Q(1, 2)
  ELSE LET par == StepLength(x, n - 1)
           xx  == NDiv(NNeg(x[n - 1]), soln[n - 1])
       IN  IF NSign(soln[n - 1]) > 0 /\ NLt(par, xx) THEN xx ELSE par

LinearStep(x) ==
  LET par0 == StepLength(x, m_numComponents)
      par1 == IF NGt(par0, I(100)) THEN I(100) ELSE par0
      par  == NDiv(I(1), par1)
      damped == NLt(par, I(1)) /\ NSign(par) > 0
      step == IF damped THEN NMul(par, Q(9999, 10000)) ELSE I(1)
      tmp  == [i \in Comps |-> NAdd(soln[i], NMul(step, x[i]))]
  IN  [soln |-> [k \in Specs |->
                   IF k \in Comps
                   THEN IF NSign(tmp[k]) > 0 THEN tmp[k] ELSE Clipped(k)
                   ELSE soln[k]],
       damped |-> damped,
       zeroed |-> {i \in Comps : NSign(tmp[i]) <= 0 /\ SSPhase[i] /\ NSign(soln[i]) > 0}]

\* Stage 4, the test of species kspec against the constraints i < n.
RECURSIVE CommonDirection(_, _, _)
CommonDirection(kspec, gaX, n) ==
  IF n = 0 THEN [goodSpec |-> TRUE, saveDir |-> NZero]
  ELSE LET p   == CommonDirection(kspec, gaX, n - 1)
           dir == NMul(FormulaMatrix[n - 1][kspec], NSub(gai[n - 1], gaX[n - 1]))
       IN  IF ~p.goodSpec THEN p
           ELSE IF NGt(fabs(dir), QE(1, 1, 1))
           THEN IF NSign(dir) > 0
                THEN IF NSign(p.saveDir) < 0 THEN [p EXCEPT !.goodSpec = FALSE]
                     ELSE [p EXCEPT !.saveDir = dir]
                ELSE IF NSign(p.saveDir) > 0 THEN [p EXCEPT !.goodSpec = FALSE]
                     ELSE [p EXCEPT !.saveDir = dir]
           ELSE IF FormulaMatrix[n - 1][kspec] # NZero THEN [p EXCEPT !.goodSpec = FALSE]
                ELSE p

\* Stage 4, the adjustment xx of a good species.
Adjustment(kspec, gaX) ==
  LET rows == {i \in Comps : FormulaMatrix[i][kspec] # NZero}
      xx   == SumTo([i \in Comps |->
                       IF i \in rows
                       THEN NDiv(NSub(gai[i], gaX[i]), FormulaMatrix[i][kspec])
                       ELSE NZero], m_numComponents)
  IN  IF rows # {} THEN NDiv(xx, I(Cardinality(rows))) ELSE xx

\* vcs_reinsert_deleted(kspec): the species becomes the last one of the
\* active list.  Only the first deleted species is reinserted here, so no
\* species changes position.
vcs_reinsert_deleted(kspec, st) ==
  IF kspec = st.m_numSpeciesRdc
  THEN [st EXCEPT !.m_numSpeciesRdc = st.m_numSpeciesRdc + 1,
                  !.spStatus = [st.spStatus EXCEPT ![kspec] = VCS_SPECIES_MAJOR]]
  ELSE Undefined

\* Stage 4 for one species.
AdjustSpecies(kspec, st) ==
  LET xx   == Adjustment(kspec, st.ga)
      sl   == [st.soln EXCEPT ![kspec] = MAX(NAdd(st.soln[kspec], xx), QE(1, 1, 1))]
      st1  == [st EXCEPT !.soln = sl, !.adjusted = Append(st.adjusted, kspec)]
  IN  IF  st.cleanup
         \/ ~NonVoltage(kspec)
         \/ ~CommonDirection(kspec, st.ga, m_numComponents).goodSpec
      THEN st
      ELSE IF kspec >= st.m_numSpeciesRdc
      THEN LET st2 == vcs_reinsert_deleted(kspec, st1)
               sl2 == [st2.soln EXCEPT ![st2.m_numSpeciesRdc - 1] = xx]
           IN  [st2 EXCEPT !.soln = sl2, !.ga = vcs_elab(FormulaMatrix, sl2),
                           !.cleanup = TRUE]
      ELSE [st1 EXCEPT !.ga = vcs_elab(FormulaMatrix, sl)]

\* Stage 4 over the species kspec < n, in order.
RECURSIVE AdHoc(_, _)
AdHoc(n, st) == IF n = 0 THEN st ELSE AdjustSpecies(n - 1, AdHoc(n - 1, st))

\* Stages 5 and 6: the first active species that constraint i can be
\* corrected with, or -1.
RECURSIVE FirstSpecies(_, _, _)
FirstSpecies(ok, kspec, n) ==
  IF kspec >= n THEN -1
  ELSE IF ok[kspec] THEN kspec
  ELSE FirstSpecies(ok, kspec + 1, n)

Floor0(x) == IF NSign(x) < 0 THEN NZero ELSE x

\* Stage 5 for constraint i.
Neutralize(i, st) ==
  LET ok == [kspec \in Specs |->
               \/ NSign(st.ga[i]) > 0 /\ NSign(FormulaMatrix[i][kspec]) < 0
               \/ NSign(st.ga[i]) < 0 /\ NSign(FormulaMatrix[i][kspec]) > 0]
      kspec == FirstSpecies(ok, 0, st.m_numSpeciesRdc)
      sl == [st.soln EXCEPT ![kspec] =
               Floor0(NSub(st.soln[kspec], NDiv(st.ga[i], FormulaMatrix[i][kspec])))]
  IN  IF /\ \/ m_elType[i] = VCS_ELEM_TYPE_CHARGENEUTRALITY
            \/ m_elType[i] = VCS_ELEM_TYPE_ABSPOS /\ gai[i] = NZero
         /\ kspec >= 0
      THEN [st EXCEPT !.soln = sl, !.ga = vcs_elab(FormulaMatrix, sl)]
      ELSE st

RECURSIVE NeutralizeAll(_, _)
NeutralizeAll(n, st) == IF n = 0 THEN st ELSE Neutralize(n - 1, NeutralizeAll(n - 1, st))

\* Stage 6 for constraint i.
ElectronCharge(i, st) ==
  LET dev == NSub(gai[i], st.ga[i])
      active == 0 .. (st.m_numSpeciesRdc - 1)
      useZeroed == ~\E kspec \in active :
                      /\ IF NSign(dev) < 0 THEN NSign(FormulaMatrix[i][kspec]) < 0
                         ELSE NSign(FormulaMatrix[i][kspec]) > 0
                      /\ NSign(st.soln[kspec]) > 0
      ok == [kspec \in Specs |->
               /\ NSign(st.soln[kspec]) > 0 \/ useZeroed
               /\ \/ NSign(dev) < 0 /\ NSign(FormulaMatrix[i][kspec]) < 0
                  \/ NSign(dev) > 0 /\ NSign(FormulaMatrix[i][kspec]) > 0]
      kspec == FirstSpecies(ok, 0, st.m_numSpeciesRdc)
      sl == [st.soln EXCEPT ![kspec] =
               Floor0(NAdd(st.soln[kspec], NDiv(dev, FormulaMatrix[i][kspec])))]
  IN  IF /\ m_elType[i] = VCS_ELEM_TYPE_ELECTRONCHARGE
         /\ NGt(fabs(dev), QE(1, 1, 30))
         /\ kspec >= 0
      THEN [st EXCEPT !.soln = sl, !.ga = vcs_elab(FormulaMatrix, sl)]
      ELSE st

RECURSIVE ElectronChargeAll(_, _)
ElectronChargeAll(n, st) ==
  IF n = 0 THEN st ELSE ElectronCharge(n - 1, ElectronChargeAll(n - 1, st))

\* The mole-number state the stages work on.
CorrState == [soln |-> soln, ga |-> ga, spStatus |-> spStatus,
              m_numSpeciesRdc |-> m_numSpeciesRdc,
              adjusted |-> <<>>, cleanup |-> FALSE]

\* The discrepancy vector of stage 3 and the matrix of the components.
Discrepancy == [i \in Comps |-> NSub(ga[i], gai[i])]
ComponentMatrix == [j \in Comps |-> [i \in Comps |-> FormulaMatrix[j][i]]]

corrFrame == <<dims, FormulaMatrix, gai, IndEl, m_elType, ElActive, ElName, ElGlobalIndex,
               SpeciesUnknownType, SSPhase, PhaseID>>

\* Entry and stage 1 (degenerate rows).
elcorr_degenerate ==
  /\ pc = "idle"
  /\ LET r == DegenerateRows(m_numElemConstraints, soln)
     IN  /\ soln' = r.soln
         /\ ga' = IF r.changed THEN vcs_elab(FormulaMatrix, r.soln) ELSE ga
  /\ retn' = 0
  /\ lv' = <<>>
  /\ hist' = [op |-> "elcorr", pre |-> [soln |-> soln, ga |-> ga, TPhMoles |-> TPhMoles],
              solved |-> FALSE, zeroed |-> {}, adjusted |-> <<>>, stage |-> 1]
  /\ pc' = "maxbound"
  /\ UNCHANGED <<corrFrame, spStatus, m_numSpeciesRdc, TPhMoles>>

\* Stage 2 without the vcs_elab() of lines 349-351.
elcorr_maxboundNoElab ==
  /\ pc = "maxbound"
  /\ LET r == MaxBounds(m_numElemConstraints * m_numSpeciesTot,
                        [soln |-> soln, spStatus |-> spStatus, changed |-> FALSE])
     IN  /\ soln' = r.soln
         /\ spStatus' = r.spStatus
  /\ hist' = [hist EXCEPT !.stage = 2]
  /\ pc' = "solve"
  /\ UNCHANGED <<corrFrame, m_numSpeciesRdc, TPhMoles, lv, retn, ga>>

\* Stage 2 (maximum bounds).
elcorr_maxbound ==
  /\ pc = "maxbound"
  /\ LET r == MaxBounds(m_numElemConstraints * m_numSpeciesTot,
                        [soln |-> soln, spStatus |-> spStatus, changed |-> FALSE])
     IN  /\ soln' = r.soln
         /\ spStatus' = r.spStatus
         /\ ga' = IF r.changed THEN vcs_elab(FormulaMatrix, r.soln) ELSE ga
  /\ hist' = [hist EXCEPT !.stage = 2]
  /\ pc' = "solve"
  /\ UNCHANGED <<corrFrame, m_numSpeciesRdc, TPhMoles, lv, retn>>

\* The return of lines 366-369 with the status left as it is.
elcorr_singularKeepsStatus ==
  /\ pc = "solve"
  /\ vcsUtil_mlequ(ComponentMatrix, m_numComponents, Discrepancy).status = 1
  /\ pc' = "done"
  /\ UNCHANGED <<corrFrame, species, ga, TPhMoles, lv, hist, retn>>

\* Stage 3 when the linear solve reports a singular matrix: the routine
\* returns at once.
elcorr_singular ==
  /\ pc = "solve"
  /\ vcsUtil_mlequ(ComponentMatrix, m_numComponents, Discrepancy).status = 1
  /\ retn' = VCS_FAILED_CONVERGENCE
  /\ pc' = "done"
  /\ UNCHANGED <<corrFrame, species, ga, TPhMoles, lv, hist>>

\* Stage 3 (general correction), then vcs_elab and vcs_tmoles.
elcorr_step ==
  /\ pc = "solve"
  /\ LET r == vcsUtil_mlequ(ComponentMatrix, m_numComponents, Discrepancy)
         s == LinearStep(r.x)
     IN  /\ r.status = 0
         /\ soln' = s.soln
         /\ ga' = vcs_elab(FormulaMatrix, s.soln)
         /\ TPhMoles' = vcs_tmoles(s.soln)
         /\ retn' = IF s.damped THEN 2
                    ELSE IF \E i \in Comps : NGt(fabs(Discrepancy[i]), QE(1, 1000, 1)) THEN 1
                    ELSE retn
         /\ lv' = [x |-> r.x]
         /\ hist' = [hist EXCEPT !.solved = TRUE, !.zeroed = s.zeroed, !.stage = 3]
  /\ pc' = "adhoc"
  /\ UNCHANGED <<corrFrame, spStatus, m_numSpeciesRdc>>

\* Stage 4 (ad hoc adjustment) when the status is 2 or more, then the check
\* of the components.
elcorr_adhoc ==
  /\ pc = "adhoc"
  /\ LET st == IF retn >= 2 THEN AdHoc(m_numSpeciesTot, CorrState) ELSE CorrState
         good == ~st.cleanup /\ vcs_elabcheck(0, FormulaMatrix, st.ga, st.soln)
     IN  /\ soln' = st.soln
         /\ ga' = st.ga
         /\ spStatus' = st.spStatus
         /\ m_numSpeciesRdc' = st.m_numSpeciesRdc
         /\ hist' = [hist EXCEPT !.adjusted = st.adjusted, !.stage = 4]
         /\ retn' = IF good THEN 1 ELSE retn
         /\ pc' = IF st.cleanup \/ good THEN "cleanup" ELSE "neutral"
  /\ UNCHANGED <<corrFrame, TPhMoles, lv>>

\* Stage 5 (charge neutrality and zero-target constraints), then the check of
\* all the constraints.
elcorr_neutral ==
  /\ pc = "neutral"
  /\ LET st == NeutralizeAll(m_numElemConstraints, CorrState)
         good == vcs_elabcheck(1, FormulaMatrix, st.ga, st.soln)
     IN  /\ soln' = st.soln
         /\ ga' = st.ga
         /\ hist' = [hist EXCEPT !.stage = 5]
         /\ retn' = IF good THEN 1 ELSE retn
         /\ pc' = IF good THEN "cleanup" ELSE "electron"
  /\ UNCHANGED <<corrFrame, spStatus, m_numSpeciesRdc, TPhMoles, lv>>

\* Stage 6 (electron charge), then the check of all the constraints.
elcorr_electron ==
  /\ pc = "electron"
  /\ LET st == ElectronChargeAll(m_numElemConstraints, CorrState)
         good == vcs_elabcheck(1, FormulaMatrix, st.ga, st.soln)
     IN  /\ soln' = st.soln
         /\ ga' = st.ga
         /\ hist' = [hist EXCEPT !.stage = 6]
         /\ retn' = IF good THEN 1 ELSE retn
         /\ pc' = "cleanup"
  /\ UNCHANGED <<corrFrame, spStatus, m_numSpeciesRdc, TPhMoles, lv>>

\* L_CLEANUP: vcs_tmoles, and the routine returns retn.
elcorr_cleanup ==
  /\ pc = "cleanup"
  /\ TPhMoles' = vcs_tmoles(soln)
  /\ pc' = "done"
  /\ UNCHANGED <<corrFrame, species, ga, lv, retn, hist>>

(***************************************************************************)
(* Problems the routines are run on.                                       *)
(***************************************************************************)
\* Number of element constraints of the problems.
MaxElem == 3

ElemNames == [i \in 0 .. (MaxElem - 1) |-> <<"El", i>>]

\* Local-to-global element maps of a phase: distinct global indices.
PhaseMaps(n) ==
  {m \in UNION {[0 .. (len - 1) -> 0 .. (n - 1)] : len \in 1 .. 2} :
     \A a, b \in DOMAIN m : a # b => m[a] # m[b]}

\* The species side of a problem that only moves elements around.
SpeciesAtRest(ns) ==
  /\ m_numSpeciesTot = ns
  /\ m_numSpeciesRdc = ns
  /\ soln = [k \in 0 .. (ns - 1) |-> I(k + 1)]
  /\ SpeciesUnknownType = [k \in 0 .. (ns - 1) |-> VCS_SPECIES_TYPE_MOLNUM]
  /\ SSPhase = [k \in 0 .. (ns - 1) |-> FALSE]
  /\ spStatus = [k \in 0 .. (ns - 1) |-> VCS_SPECIES_MAJOR]
  /\ PhaseID = [k \in 0 .. (ns - 1) |-> 0]
  /\ TPhMoles = <<>>

InitSwitch ==
  /\ m_numElemConstraints = MaxElem
  /\ m_numComponents = 2
  /\ SpeciesAtRest(3)
  /\ \E d \in {0, 1} :
       FormulaMatrix = [i \in 0 .. (MaxElem - 1) |-> [k \in 0 .. 2 |-> I(d * i + k - 1)]]
  /\ gai = [i \in 0 .. (MaxElem - 1) |-> I(i + 1)]
  /\ ga = [i \in 0 .. (MaxElem - 1) |-> Q(i, 2)]
  /\ IndEl = [i \in 0 .. (MaxElem - 1) |-> i]
  /\ m_elType = [i \in 0 .. (MaxElem - 1) |->
                   IF i = 0 THEN VCS_ELEM_TYPE_ELECTRONCHARGE ELSE VCS_ELEM_TYPE_ABSPOS]
  /\ ElActive = [i \in 0 .. (MaxElem - 1) |-> i # 1]
  /\ ElName = ElemNames
  /\ \E m \in PhaseMaps(MaxElem) :
       ElGlobalIndex = [iph \in 0 .. 1 |->
                          IF iph = 0 THEN m ELSE [e \in 0 .. 1 |-> (MaxElem - 1) * (1 - e)]]
  /\ pc = "idle"
  /\ lv = <<>>
  /\ retn = VCS_SUCCESS
  /\ hist = [op |-> "none"]

NextSwitch == CallSwitchElemPos

SpecSwitch == InitSwitch /\ [][NextSwitch]_vars

\* Rows of the formula matrix: two columns that may be component columns and
\* a third that is not.  Tiny is a coefficient whose square is below 1e-6.
Tiny == Q(1, 2000)
RearrRows == { <<I(1), I(0)>>, <<I(0), I(1)>>, <<I(1), I(1)>>, <<I(2), I(2)>>,
               <<I(0), I(0)>>, <<Tiny, I(0)>> }

\* The value test has after one pass over the elements.
TestOnePass == NSub(TestInit, I(MaxElem))

InitRearr ==
  /\ m_numElemConstraints = MaxElem
  /\ m_numComponents \in {1, 2}
  /\ SpeciesAtRest(3)
  /\ \E rows \in [0 .. (MaxElem - 1) -> RearrRows] :
       FormulaMatrix = [i \in 0 .. (MaxElem - 1) |->
                          [k \in 0 .. 2 |-> IF k < 2 THEN rows[i][k + 1] ELSE I(i + 1)]]
  /\ \E s \in 0 .. MaxElem :
       gai = [i \in 0 .. (MaxElem - 1) |-> IF i + 1 = s THEN TestOnePass ELSE I(i + 1)]
  /\ ga = [i \in 0 .. (MaxElem - 1) |-> I(0)]
  /\ IndEl = [i \in 0 .. (MaxElem - 1) |-> i]
  /\ m_elType = [i \in 0 .. (MaxElem - 1) |-> VCS_ELEM_TYPE_ABSPOS]
  /\ \E off \in 0 .. MaxElem :
       ElActive = [i \in 0 .. (MaxElem - 1) |-> i + 1 # off]
  /\ ElName = ElemNames
  /\ ElGlobalIndex = [iph \in {0} |-> [e \in 0 .. (MaxElem - 1) |-> e]]
  /\ pc = "idle"
  /\ lv = <<>>
  /\ retn = VCS_SUCCESS
  /\ hist = [op |-> "none"]

NextRearr ==
  \/ rearrange_begin
  \/ rearrange_candidate
  \/ rearrange_exhausted
  \/ rearrange_accept

SpecRearr == InitRearr /\ [][NextRearr]_vars


\* Mole numbers of a problem of the corrector are 0 .. MaxMoles, and the target
\* abundances of its element constraints 0 .. MaxMoles + 1.
MaxMoles == 1

\* Constraints of the corrector's problems: the row of the formula matrix over
\* three species, the type, and the target abundances the type allows.
CorrKind(a, b, c, type, targets) ==
  [row |-> <<I(a), I(b), I(c)>>, type |-> type, targets |-> targets]

Element(a, b, c)  == CorrKind(a, b, c, VCS_ELEM_TYPE_ABSPOS, 0 .. (MaxMoles + 1))
Neutrality(a, b, c) == CorrKind(a, b, c, VCS_ELEM_TYPE_CHARGENEUTRALITY, {0})
Electrons(a, b, c)  == CorrKind(a, b, c, VCS_ELEM_TYPE_ELECTRONCHARGE, {-1, 0, 1})

\* The problems: two constraints each.  With two components the third is
\* singular, with one component the sixth is.
CorrProblems ==
  { <<Element(1, 1, 1), Element(1, 2, 1)>>,
    <<Element(1, 0, 0), Element(0, 1, 1)>>,
    <<Element(1, 0, 0), Element(1, 0, 1)>>,
    <<Element(1, 1, 0), Neutrality(1, -1, 0)>>,
    <<Element(1, 1, 1), Electrons(0, 1, -1)>>,
    <<Electrons(0, 1, -1), Element(1, 1, 1)>>,
    <<Neutrality(1, -1, 0), Element(0, 1, 1)>>,
    <<Element(1, 2, 1), Element(1, 1, 0)>> }

\* The states vcs_elcorr is called in, for a set of problems.
CorrCalls(problems) ==
  /\ m_numElemConstraints = 2
  /\ m_numComponents \in {1, 2}
  /\ m_numSpeciesTot = 3
  /\ \E kinds \in problems :
       /\ FormulaMatrix = [i \in 0 .. 1 |-> [k \in 0 .. 2 |-> kinds[i + 1].row[k + 1]]]
       /\ m_elType = [i \in 0 .. 1 |-> kinds[i + 1].type]
       /\ \E t0 \in kinds[1].targets, t1 \in kinds[2].targets :
            gai = [i \in 0 .. 1 |-> IF i = 0 THEN I(t0) ELSE I(t1)]
  /\ IndEl = [i \in 0 .. 1 |-> i]
  /\ ElActive = [i \in 0 .. 1 |-> TRUE]
  /\ ElName = [i \in 0 .. 1 |-> ElemNames[i]]
  /\ ElGlobalIndex = [iph \in {0} |-> [e \in 0 .. 1 |-> e]]
  /\ soln \in [0 .. 2 -> {I(n) : n \in 0 .. MaxMoles}]
  /\ \E last \in {"active", "single", "deleted", "voltage"} :
       /\ last = "deleted" => soln[2] = NZero
       /\ SpeciesUnknownType = [k \in 0 .. 2 |->
                                  IF k = 2 /\ last = "voltage"
                                  THEN VCS_SPECIES_TYPE_INTERFACIALVOLTAGE
                                  ELSE VCS_SPECIES_TYPE_MOLNUM]
       /\ m_numSpeciesRdc = IF last = "deleted" THEN 2 ELSE 3
       /\ spStatus = [k \in 0 .. 2 |->
                        IF k = 2 /\ last = "deleted" THEN VCS_SPECIES_ZEROEDMS
                        ELSE VCS_SPECIES_MAJOR]
       /\ PhaseID = [k \in 0 .. 2 |-> IF last = "single" /\ k > 0 THEN 1 ELSE 0]
       /\ SSPhase = [k \in 0 .. 2 |-> last = "single" /\ k = 0]
  /\ ga = vcs_elab(FormulaMatrix, soln)
  /\ TPhMoles = vcs_tmoles(soln)
  /\ pc = "idle"
  /\ lv = <<>>
  /\ retn = VCS_SUCCESS
  /\ hist = [op |-> "none"]

InitCorr == CorrCalls(CorrProblems)

NextCorr ==
  \/ elcorr_degenerate
  \/ elcorr_maxbound
  \/ elcorr_singular
  \/ elcorr_step
  \/ elcorr_adhoc
  \/ elcorr_neutral
  \/ elcorr_electron
  \/ elcorr_cleanup

SpecCorr == InitCorr /\ [][NextCorr]_vars

\* Problems whose rows have a single entry each: solved by the degenerate-row
\* stage when the entries are in different columns.  With two components the
\* third is singular, with one component the second is.  The last two have
\* rows of several entries, which the later stages work on.
DegenerateProblems ==
  { <<Element(1, 0, 0), Element(0, 2, 0)>>,
    <<Element(0, 2, 0), Element(1, 0, 0)>>,
    <<Element(1, 0, 0), Element(0, 0, 1)>>,
    <<Element(1, 0, 0), Element(2, 0, 0)>>,
    <<Element(2, 0, 0), Element(0, 1, 0)>>,
    <<Element(0, 0, 1), Element(0, 2, 0)>>,
    <<Element(1, 1, 1), Electrons(0, 1, -1)>>,
    <<Neutrality(1, -1, 0), Element(0, 1, 1)>> }

InitDegenerate == CorrCalls(DegenerateProblems)

SpecDegenerate == InitDegenerate /\ [][NextCorr]_vars

\* Rows of the formula matrix for the evaluator: every column has entries of
\* both signs and zero entries.
ElabRows == { <<I(1), I(0), I(2)>>, <<I(-1), I(1), I(1)>>,
              <<I(0), I(2), I(-1)>>, <<I(1), I(1), I(1)>> }

\* Any set of the species may be interfacial voltages; ga holds values of an
\* earlier state.
InitElab ==
  /\ m_numElemConstraints = 2
  /\ m_numComponents = 2
  /\ m_numSpeciesTot = 3
  /\ m_numSpeciesRdc = 3
  /\ \E rows \in [0 .. 1 -> ElabRows] :
       FormulaMatrix = [i \in 0 .. 1 |-> [k \in 0 .. 2 |-> rows[i][k + 1]]]
  /\ gai = [i \in 0 .. 1 |-> I(1)]
  /\ ga = [i \in 0 .. 1 |-> I(7 + i)]
  /\ IndEl = [i \in 0 .. 1 |-> i]
  /\ m_elType = [i \in 0 .. 1 |-> VCS_ELEM_TYPE_ABSPOS]
  /\ ElActive = [i \in 0 .. 1 |-> TRUE]
  /\ ElName = [i \in 0 .. 1 |-> ElemNames[i]]
  /\ ElGlobalIndex = [iph \in {0} |-> [e \in 0 .. 1 |-> e]]
  /\ soln \in [0 .. 2 -> {I(n) : n \in 0 .. MaxMoles}]
  /\ \E volt \in SUBSET (0 .. 2) :
       SpeciesUnknownType = [k \in 0 .. 2 |->
                               IF k \in volt THEN VCS_SPECIES_TYPE_INTERFACIALVOLTAGE
                               ELSE VCS_SPECIES_TYPE_MOLNUM]
  /\ SSPhase = [k \in 0 .. 2 |-> FALSE]
  /\ spStatus = [k \in 0 .. 2 |-> VCS_SPECIES_MAJOR]
  /\ PhaseID = [k \in 0 .. 2 |-> 0]
  /\ TPhMoles = [iph \in {0} |-> I(3)]
  /\ pc = "idle"
  /\ lv = <<>>
  /\ retn = VCS_SUCCESS
  /\ hist = [op |-> "none"]

NextElab == CallElab

SpecElab == InitElab /\ [][NextElab]_vars

\* First rows for the checker: entries of both signs, of one sign, and a
\* negative or the only positive entry in the last column.
CheckRows == { <<I(1), I(-1), I(0)>>, <<I(1), I(1), I(0)>>,
               <<I(1), I(0), I(-1)>>, <<I(-1), I(0), I(1)>> }

\* Type and target of the first constraint.
CheckKinds == { <<VCS_ELEM_TYPE_ABSPOS, I(0)>>, <<VCS_ELEM_TYPE_ABSPOS, I(1)>>,
                <<VCS_ELEM_TYPE_CHARGENEUTRALITY, I(0)>>,
                <<VCS_ELEM_TYPE_ELECTRONCHARGE, I(0)>>,
                <<VCS_ELEM_TYPE_ELECTRONCHARGE, I(1)>> }

\* Mole numbers: whole numbers, and numbers 1e-12 away from them.
CheckMoles == {I(n) : n \in 0 .. MaxMoles}
                \cup {NSub(I(n), QE(1, 100, 1)) : n \in 1 .. MaxMoles}
                \cup {QE(1, 100, 1)}

\* The states vcs_elabcheck is called in: ga is what vcs_elab gives for soln;
\* the last species may be an interfacial voltage.
InitCheck ==
  /\ m_numElemConstraints = 2
  /\ m_numComponents \in {1, 2}
  /\ m_numSpeciesTot = 3
  /\ m_numSpeciesRdc = 3
  /\ \E row \in CheckRows :
       FormulaMatrix = [i \in 0 .. 1 |-> [k \in 0 .. 2 |->
                          IF i = 0 THEN row[k + 1] ELSE I(1)]]
  /\ \E kind \in CheckKinds :
       /\ m_elType = [i \in 0 .. 1 |-> IF i = 0 THEN kind[1] ELSE VCS_ELEM_TYPE_ABSPOS]
       /\ gai = [i \in 0 .. 1 |-> IF i = 0 THEN kind[2] ELSE I(MaxMoles)]
  /\ IndEl = [i \in 0 .. 1 |-> i]
  /\ ElActive = [i \in 0 .. 1 |-> TRUE]
  /\ ElName = [i \in 0 .. 1 |-> ElemNames[i]]
  /\ ElGlobalIndex = [iph \in {0} |-> [e \in 0 .. 1 |-> e]]
  /\ soln \in [0 .. 2 -> CheckMoles]
  /\ \E volt \in {{}, {2}} :
       SpeciesUnknownType = [k \in 0 .. 2 |->
                               IF k \in volt THEN VCS_SPECIES_TYPE_INTERFACIALVOLTAGE
                               ELSE VCS_SPECIES_TYPE_MOLNUM]
  /\ SSPhase = [k \in 0 .. 2 |-> FALSE]
  /\ spStatus = [k \in 0 .. 2 |-> VCS_SPECIES_MAJOR]
  /\ PhaseID = [k \in 0 .. 2 |-> 0]
  /\ ga = vcs_elab(FormulaMatrix, soln)
  /\ TPhMoles = vcs_tmoles(soln)
  /\ pc = "idle"
  /\ lv = <<>>
  /\ retn = VCS_SUCCESS
  /\ hist = [op |-> "none"]

NextCheck == CallElabCheck

SpecCheck == InitCheck /\ [][NextCheck]_vars

(***************************************************************************)
(* Linear algebra the properties are stated with.                          *)
(***************************************************************************)
\* r minus its projections on the accepted rows among the first m of B.
RECURSIVE ProjectOut(_, _, _)
ProjectOut(r, B, m) ==
  IF m = 0 THEN r
  ELSE LET r1 == ProjectOut(r, B, m - 1)
           b  == B[m]
       IN  IF b.acc
           THEN LET c == NDiv(DotC(r1, b.row), b.len)
                IN  [l \in Comps |-> NSub(r1[l], NMul(c, b.row[l]))]
           ELSE r1

\* A residual is accepted when it reaches tol; tol = 0 asks for a non-zero one.
Accepted(len, tol) == IF tol = NZero THEN NSign(len) > 0 ELSE NGe(len, tol)

\* Gram-Schmidt over the first n rows of the sequence rows: for each row its
\* residual against the rows accepted before it, and that residual's squared norm.
RECURSIVE Basis(_, _, _)
Basis(rows, n, tol) ==
  IF n = 0 THEN <<>>
  ELSE LET B == Basis(rows, n - 1, tol)
           o == ProjectOut(rows[n], B, n - 1)
           len == DotC(o, o)
       IN  Append(B, [row |-> o, len |-> len, acc |-> Accepted(len, tol)])

NumAccepted(B) == Cardinality({n \in DOMAIN B : B[n].acc})

\* The constraints of idx (a set of positions), in position order, as rows
\* restricted to the component columns.
RECURSIVE RowsOf(_, _, _)
RowsOf(fm, idx, n) ==
  IF n = 0 THEN <<>>
  ELSE IF (n - 1) \in idx THEN Append(RowsOf(fm, idx, n - 1), CompRow(fm, n - 1))
       ELSE RowsOf(fm, idx, n - 1)

\* The first C rows of fm each have a residual of squared norm >= 1e-6
\* against the rows before them.
FirstRowsIndependent(fm) ==
  LET rows == RowsOf(fm, Comps, m_numComponents)
  IN  NumAccepted(Basis(rows, Len(rows), LinDepTol)) = m_numComponents

\* The rank of the rows at positions idx, restricted to the component columns.
Rank(fm, idx) ==
  LET rows == RowsOf(fm, idx, m_numElemConstraints)
  IN  NumAccepted(Basis(rows, Len(rows), NZero))

\* How many rows a scan in position order over the rows at idx accepts at 1e-6.
ScanCount(fm, idx) ==
  LET rows == RowsOf(fm, idx, m_numElemConstraints)
  IN  NumAccepted(Basis(rows, Len(rows), LinDepTol))

ActiveSet(active) == {i \in Elems : active[i]}

Returned == pc \in {"done", "exit"}

(***************************************************************************)
(* Properties of vcs_switch_elem_pos.                                      *)
(***************************************************************************)
Switched == hist.op = "switch" /\ hist.ipos # hist.jpos

\* C1: after vcs_switch_elem_pos(i, j) with i # j, in every phase's
\* ElGlobalIndex an entry that was i is j, an entry that was j is i, and every
\* other entry is as it was.
C1_PhaseMapsExchanged ==
  Switched =>
    \A iph \in DOMAIN ElGlobalIndex : \A e \in DOMAIN ElGlobalIndex[iph] :
      LET old == hist.pre.ElGlobalIndex[iph][e]
          new == ElGlobalIndex[iph][e]
      IN  /\ old = hist.ipos => new = hist.jpos
          /\ old = hist.jpos => new = hist.ipos
          /\ old \notin {hist.ipos, hist.jpos} => new = old

\* y is x with the entries at i and j exchanged.
Exchanged(x, y, i, j) ==
  /\ DOMAIN y = DOMAIN x
  /\ y[i] = x[j]
  /\ y[j] = x[i]
  /\ \A e \in DOMAIN x \ {i, j} : y[e] = x[e]

\* C15: vcs_switch_elem_pos(i, j) exchanges the entries i and j of gai, ga,
\* IndEl, m_elType, ElActive and ElName and the rows i and j of FormulaMatrix
\* in all the species columns; the other entries of these, and the mole numbers
\* and the rest of the species data, stay as they are; with i = j nothing
\* changes.
C15_EntriesAndRowsExchanged ==
  [][LET i == hist'.ipos
         j == hist'.jpos
     IN  /\ Exchanged(gai, gai', i, j)
         /\ Exchanged(ga, ga', i, j)
         /\ Exchanged(IndEl, IndEl', i, j)
         /\ Exchanged(m_elType, m_elType', i, j)
         /\ Exchanged(ElActive, ElActive', i, j)
         /\ Exchanged(ElName, ElName', i, j)
         /\ Exchanged(FormulaMatrix, FormulaMatrix', i, j)
         /\ \A e \in Elems : DOMAIN FormulaMatrix'[e] = Specs
         /\ UNCHANGED <<dims, species, TPhMoles>>
         /\ i = j => UNCHANGED <<elems, ElGlobalIndex, pc, lv, retn>>]_vars

\* Two different positions have been switched: arrays and rows differ from
\* before, also in the column that is not a component's.
C15_Witness ==
  /\ Switched
  /\ gai # hist.pre.gai /\ ga # hist.pre.ga /\ IndEl # hist.pre.IndEl
  /\ m_elType # hist.pre.m_elType /\ ElActive # hist.pre.ElActive
  /\ ElName # hist.pre.ElName
  /\ \E k \in Specs : /\ k >= m_numComponents
                      /\ FormulaMatrix[hist.ipos][k] # hist.pre.FormulaMatrix[hist.ipos][k]

(***************************************************************************)
(* Properties of vcs_elem_rearrange.                                       *)
(***************************************************************************)
Rearranged == hist.op = "rearrange" /\ pc = "done"

\* C2: when vcs_elem_rearrange returns VCS_SUCCESS, each of the first C rows,
\* restricted to the component columns, has a Gram-Schmidt residual of squared
\* norm >= 1e-6 against the rows before it; so the first C rows have rank C and
\* a row that depends on rows before it sits at a position >= C.
C2_FirstRowsIndependent ==
  Rearranged =>
    /\ retn = VCS_SUCCESS
    /\ FirstRowsIndependent(FormulaMatrix)
    /\ Rank(FormulaMatrix, Comps) = m_numComponents

\* A success that had to move a dependent row out of the first C positions.
C2_Witness ==
  /\ Rearranged
  /\ hist.swaps > 0
  /\ ~FirstRowsIndependent(hist.pre.FormulaMatrix)
  /\ FirstRowsIndependent(FormulaMatrix)


RearrCalled == hist.op = "rearrange"

\* The constraints the search can select: active, and with a target that is
\* not the value of test.
Selectable == {i \in Elems : hist.pre.ElActive[i] /\ hist.pre.gai[i] # lv.test}

NoDuplicates(q) == \A a, b \in DOMAIN q : a # b => q[a] # q[b]

\* What is left to do: it decreases with every step of the routine, so a run
\* that can always take a step until it returns does return.
StepsLeft ==
  CASE pc = "idle"         -> 2 * m_numElemConstraints + 3
    [] pc = "rearr_search" -> 2 * (m_numElemConstraints - Len(hist.examined)) + 1
    [] pc = "rearr_swap"   -> 2 * (m_numElemConstraints - Len(hist.examined)) + 2
    [] OTHER               -> 0

\* The guards of the steps: one of them holds wherever the routine stands.
RearrCanStep ==
  \/ pc = "idle"
  \/ pc = "rearr_search" /\ Candidates # {}
  \/ pc = "rearr_search" /\ Candidates = {}
  \/ pc = "rearr_swap"

\* Every run ends: until it has returned or exited the routine has a next
\* step, and each step leaves fewer steps to do.
RearrEnds ==
  /\ [](Returned \/ RearrCanStep)
  /\ [](StepsLeft >= 0)
  /\ [][StepsLeft' < StepsLeft]_vars

NothingMoved ==
  /\ hist.swaps = 0
  /\ ElemState = hist.pre

Evaluated == hist.op = "elab"

\* The sum of coefficient * moles over a set of species, in any order.
RECURSIVE SumOver(_, _, _)
SumOver(row, sl, K) ==
  IF K = {} THEN NZero
  ELSE LET k == CHOOSE x \in K : TRUE
       IN  NAdd(NMul(row[k], sl[k]), SumOver(row, sl, K \ {k}))

MolNumSpecies == {k \in Specs : SpeciesUnknownType[k] = VCS_SPECIES_TYPE_MOLNUM}

\* C11: after vcs_elab, ga[i] is the sum over the species that are not
\* interfacial voltages of FormulaMatrix[i][k] * soln[k], for every i, and
\* nothing but ga differs from the state vcs_elab was called in.
C11_AbundanceIsSumOverMolNumSpecies ==
  Evaluated =>
    /\ \A i \in Elems : ga[i] = SumOver(FormulaMatrix[i], soln, MolNumSpecies)
    /\ [ElemState EXCEPT !.ga = hist.pre.ga] = hist.pre
    /\ <<dims, species, TPhMoles, lv, retn>> = hist.rest

\* vcs_elab has run on a state in which a voltage species with moles has a
\* non-zero coefficient, and ga has changed.
C11_Witness ==
  /\ Evaluated
  /\ \E k \in Specs \ MolNumSpecies : \E i \in Elems :
       /\ NMul(FormulaMatrix[i][k], soln[k]) # NZero
       /\ MolNumSpecies # {}
       /\ ga[i] # NZero
  /\ ga # hist.pre.ga

(***************************************************************************)
(* Properties of vcs_elcorr.                                               *)
(***************************************************************************)
\* vcs_elcorr has returned.
Corrected == hist.op = "elcorr" /\ pc = "done"

\* The sum over all the constraints of the squared discrepancy.
SumSquares(gaX) ==
  SumTo([i \in Elems |-> SQUARE(NSub(gaX[i], gai[i]))], m_numElemConstraints)

\* C3: called with every current abundance equal to its target, vcs_elcorr
\* returns 0.
C3_CompliantReturnsZero ==
  (Corrected /\ hist.pre.ga = gai) => retn = 0

\* C4: when vcs_elcorr returns 1, vcs_elabcheck(0) succeeds on the mole
\* numbers and abundances returned.
C4_StatusOneIsCompliant ==
  (Corrected /\ retn = 1) => vcs_elabcheck(0, FormulaMatrix, ga, soln)

\* C5: when the general correction forced a component to zero and the
\* abundances returned are not in compliance, vcs_elcorr returns 3.
C5_ZeroedComponentReturnsThree ==
  (/\ Corrected
   /\ hist.zeroed # {}
   /\ ~vcs_elabcheck(0, FormulaMatrix, ga, soln)) => retn = 3

\* C6: after every stage of vcs_elcorr, and on return, no mole number is
\* negative (none is on entry).
C6_NoNegativeMoles ==
  hist.op = "elcorr" => \A kspec \in Specs : NSign(soln[kspec]) >= 0

\* C7: when the linear solve of stage 3 succeeded, the sum of the squared
\* discrepancies over all the constraints on return is not larger than on
\* entry.
C7_SumSquaresNotIncreased ==
  (Corrected /\ hist.solved) => NLe(SumSquares(ga), SumSquares(hist.pre.ga))

\* C8: on every return of vcs_elcorr the phase totals are those of the mole
\* numbers returned: vcs_tmoles ran after the last change of soln.
C8_PhaseTotalsRecomputed ==
  Corrected => TPhMoles = vcs_tmoles(soln)

\* The species that has the only non-zero coefficient of row i.
OnlySpecies(i) == CHOOSE k \in Specs : FormulaMatrix[i][k] # NZero

\* Every row has exactly one non-zero coefficient, positive and of a species
\* that is not an interfacial voltage, and no target is negative.
SingleEntryRows ==
  \A i \in Elems :
    /\ Cardinality({k \in Specs : FormulaMatrix[i][k] # NZero}) = 1
    /\ NSign(FormulaMatrix[i][OnlySpecies(i)]) > 0
    /\ NonVoltage(OnlySpecies(i))
    /\ NSign(gai[i]) >= 0

\* vcs_elcorr has returned from a call on non-compliant mole numbers.
CorrectedFromBad == Corrected /\ hist.pre.ga # gai

\* Every species of a row has target / coefficient moles, vcs_elabcheck(1)
\* succeeds, and the status is 1.
SolvedByRows ==
  /\ \A i \in Elems :
       soln[OnlySpecies(i)] = NDiv(gai[i], FormulaMatrix[i][OnlySpecies(i)])
  /\ vcs_elabcheck(1, FormulaMatrix, ga, soln)
  /\ retn = 1

\* C12 as stated: for single-entry rows, a call of vcs_elcorr on non-compliant
\* mole numbers sets every row's species to target / coefficient, after which
\* vcs_elabcheck succeeds, and returns 1.
C12_SingleEntryRowsSolved ==
  (CorrectedFromBad /\ SingleEntryRows) => SolvedByRows

\* The rows have their entries in different columns, and those of the
\* component rows are in component columns.
DistinctEntries ==
  /\ \A i, j \in Elems : i # j => OnlySpecies(i) # OnlySpecies(j)
  /\ \A i \in Comps : OnlySpecies(i) \in Comps

\* C12, amended: the same, for rows whose entries are in different columns
\* with those of the first C rows in the first C columns.
C12_DistinctSingleEntryRowsSolved ==
  (CorrectedFromBad /\ SingleEntryRows /\ DistinctEntries) => SolvedByRows

\* Such a call has returned and has changed the mole numbers.
C12_Witness ==
  /\ CorrectedFromBad /\ SingleEntryRows /\ DistinctEntries
  /\ soln # hist.pre.soln
  /\ m_numComponents < m_numElemConstraints
  /\ retn = 1

\* The linear solve of stage 3 is about to report a singular matrix.
SingularSolve ==
  /\ pc = "solve"
  /\ vcsUtil_mlequ(ComponentMatrix, m_numComponents, Discrepancy).status # 0

\* C13: when the linear solve of stage 3 reports a singular matrix, the call
\* ends with that step, returns VCS_FAILED_CONVERGENCE, which is none of the
\* statuses 0 to 3, and no mole number is changed from stage 3 on.
C13_SingularSolveEndsCall ==
  [][/\ SingularSolve =>
          /\ pc' = "done"
          /\ retn' = VCS_FAILED_CONVERGENCE
          /\ retn' \notin 0 .. 3
          /\ soln' = soln
     /\ pc = "done" => soln' = soln]_vars

\* A call has ended on a singular matrix after stages 1 and 2 had changed
\* mole numbers.
C13_Witness ==
  /\ Corrected
  /\ ~hist.solved
  /\ retn = VCS_FAILED_CONVERGENCE
  /\ soln # hist.pre.soln

\* vcs_elabcheck has returned.
Checked == hist.op = "elabcheck"

\* The constraints vcs_elabcheck has looked at.
CheckedRows ==
  0 .. ((IF hist.ibound # 0 THEN m_numElemConstraints ELSE m_numComponents) - 1)

\* Row i has positive and negative coefficients among the species that are
\* not interfacial voltages.
MixedSigns(i) ==
  /\ \E k \in MolNumSpecies : NSign(FormulaMatrix[i][k]) > 0
  /\ \E k \in MolNumSpecies : NSign(FormulaMatrix[i][k]) < 0

\* Constraint i has a zero target or is an electron-charge constraint, and is
\* off by more than the cutoff for minor species.
OffByMoreThanCutoff(i) ==
  /\ gai[i] = NZero \/ m_elType[i] = VCS_ELEM_TYPE_ELECTRONCHARGE
  /\ NGt(fabs(NSub(ga[i], gai[i])), NMul(fabs(gai[i]), QE(1, 100, 1)))
  /\ NGt(fabs(NSub(ga[i], gai[i])), VCS_DELETE_MINORSPECIES_CUTOFF)

\* C14: vcs_elabcheck lets a constraint with a zero target, or of the
\* electron-charge type, be off by more than the cutoff for minor species only
\* when its row has positive and negative coefficients among the species that
\* are not interfacial voltages; a row of one sign is held to the cutoff.
C14_RelaxedOnlyForMixedSigns ==
  (Checked /\ retn = 1) =>
    \A i \in CheckedRows : OffByMoreThanCutoff(i) => MixedSigns(i)

\* The relaxed tolerance at work on a row of both signs.
C14_RelaxedForMixedSigns ==
  /\ Checked /\ retn = 1
  /\ \E i \in CheckedRows : OffByMoreThanCutoff(i) /\ MixedSigns(i)

\* The species whose mole numbers a step changes.
ChangedSpecies == {k \in Specs : soln'[k] # soln[k]}

\* C16: stage 4 of vcs_elcorr adjusts at most one species in a call: after the
\* first species it adjusts, it looks at no later one.
C16_AdHocAdjustsOneSpecies ==
  [][pc = "adhoc" => Cardinality(ChangedSpecies) <= 1]_vars

\* C17: on every return of vcs_elcorr, also the one after a singular solve,
\* ga[i] is the sum of FormulaMatrix[i][k] * soln[k] over the species k that
\* are not interfacial voltages, for the mole numbers the call leaves.
C17_AbundancesFollowMoles ==
  Corrected =>
    \A i \in Elems : ga[i] = SumOver(FormulaMatrix[i], soln, MolNumSpecies)

\* A call that changed mole numbers in stage 5 or 6 has returned.
C17_Witness ==
  /\ Corrected
  /\ hist.stage >= 5
  /\ soln # hist.pre.soln
  /\ ga # hist.pre.ga

=============================================================================
